---- MODULE Spec2Model ----
(***************************************************************************)
(* Model of the notify_credentials management command                      *)
(* (openedx/core/djangoapps/credentials/management/commands/               *)
(* notify_credentials.py): Command.handle, Command.get_args_from_database, *)
(* Command.get_course_keys and parsetime.                                  *)
(*                                                                         *)
(* A Python string is a sequence of lexemes: a word, a blank (SP) or a     *)
(* double quote (DQ).  Python's None, lists and datetimes are tagged       *)
(* records, so that values of different Python types compare unequal.      *)
(***************************************************************************)
EXTENDS Integers, Sequences, FiniteSets, TLC

VARIABLES
    pc,                         \* position inside Command.handle
    config,                     \* the current NotifyCredentialsConfig record
    cmdline,                    \* the **options handle was invoked with
    called_from_command_line,   \* Command._called_from_command_line
    options,                    \* the local variable `options` of handle
    effective,                  \* `options` as it stood after line 146
    courses,                    \* the local `courses` of get_course_keys
    course_keys,                \* the local `course_keys`
    parse_calls,                \* number of CourseKey.from_string calls
    config_reads,               \* number of NotifyCredentialsConfig.current() calls
    filter_checked,             \* whether line 167 has been evaluated
    now,                        \* what datetime.now() returned at line 149
    outcome,                    \* how the invocation ended
    queue                       \* jobs handed to handle_notify_credentials.delay

vars == <<pc, config, cmdline, called_from_command_line, options, effective,
          courses, course_keys, parse_calls, config_reads, filter_checked,
          now, outcome, queue>>

----------------------------------------------------------------------------
(* Bounds *)

\* longest --courses list given on the command line
MaxCourses == 2

----------------------------------------------------------------------------
(* Python values *)

None == [type |-> "NoneType"]

List(s) == [type |-> "list", items |-> s]

DateTime(d, h, m, s, us, tz) ==
    [type |-> "datetime", day |-> d, hour |-> h, minute |-> m,
     second |-> s, microsecond |-> us, tzinfo |-> tz]

\* Python truth value of an option value: None and [] are false, a datetime
\* and a non-empty list are true.
Truthy(v) ==
    CASE v.type = "NoneType" -> FALSE
      [] v.type = "list"     -> Len(v.items) > 0
      [] v.type = "datetime" -> TRUE

SP == " "
DQ == "\""

\* a string made of one word
W(w) == <<w>>

\* a str held as an option value
Str(s) == [type |-> "str", chars |-> s]

----------------------------------------------------------------------------
(* Course ids *)

DemoCourseId    == W("course-v1:edX+DemoX+Demo_Course")
RecordsCourseId == W("course-v1:edX+RecordsSelfPaced+1")
BadCourseId     == W("not-a-course-key")

CourseIds == {DemoCourseId, RecordsCourseId, BadCourseId}

\* CourseKey.from_string: the key a string parses to, or InvalidKeyError.
CourseKeyFromString(s) ==
    CASE s = DemoCourseId ->
            [ok |-> TRUE,
             key |-> [type |-> "CourseLocator", org |-> "edX",
                      course |-> "DemoX", run |-> "Demo_Course"]]
      [] s = RecordsCourseId ->
            [ok |-> TRUE,
             key |-> [type |-> "CourseLocator", org |-> "edX",
                      course |-> "RecordsSelfPaced", run |-> "1"]]
      [] OTHER -> [ok |-> FALSE, key |-> None]

----------------------------------------------------------------------------
(* Dates *)

\* proleptic Gregorian ordinals of 2018-06-01 and 2020-10-20
Day20180601 == 736846
Day20201020 == 737718

DateStr20180601     == W("2018-06-01")
DateTimeStr20201020 == <<"2020-10-20", SP, "04:00:00">>
DateStrBad          == W("yesterday")

\* parsetime: dateutil parses the string; a naive result is made UTC.
\* A string dateutil cannot parse raises ValueError.
parsetime(timestr) ==
    CASE timestr = DateStr20180601 ->
            [ok |-> TRUE, dt |-> DateTime(Day20180601, 0, 0, 0, 0, "UTC")]
      [] timestr = DateTimeStr20201020 ->
            [ok |-> TRUE, dt |-> DateTime(Day20201020, 4, 0, 0, 0, "UTC")]
      [] OTHER -> [ok |-> FALSE, dt |-> None]

\* variant: the microsecond is left as read
TruncateKeepsMicrosecond(dt) ==
    [dt EXCEPT !.minute = 0, !.second = 0]

\* dt.replace(minute=0, second=0, microsecond=0)
TruncateToHour(dt) ==
    [dt EXCEPT !.minute = 0, !.second = 0, !.microsecond = 0]

\* dt - timedelta(hours=4)
MinusFourHours(dt) ==
    IF dt.hour >= 4
    THEN [dt EXCEPT !.hour = dt.hour - 4]
    ELSE [dt EXCEPT !.day = dt.day - 1, !.hour = dt.hour + 20]

\* values datetime.now() can return: naive local time
Clock ==
    {DateTime(Day20201020, h, t[1], t[2], t[3], "naive") :
        h \in {3, 4, 23}, t \in {<<0, 0, 0>>, <<59, 30, 999999>>}}

----------------------------------------------------------------------------
(* shlex.split *)

RECURSIVE ShlexFrom(_, _, _, _, _, _)
ShlexFrom(s, i, cur, inTok, inQuote, out) ==
    IF i > Len(s)
    THEN IF inQuote
         THEN [ok |-> FALSE, argv |-> <<>>]      \* ValueError: No closing quotation
         ELSE [ok |-> TRUE, argv |-> IF inTok THEN Append(out, cur) ELSE out]
    ELSE IF s[i] = DQ
         THEN ShlexFrom(s, i + 1, cur, TRUE, ~inQuote, out)
         ELSE IF s[i] = SP /\ ~inQuote
              THEN ShlexFrom(s, i + 1, <<>>, FALSE, FALSE,
                             IF inTok THEN Append(out, cur) ELSE out)
              ELSE ShlexFrom(s, i + 1, Append(cur, s[i]), TRUE, inQuote, out)

\* shlex.split(s): blanks separate tokens, a quoted stretch keeps its blanks,
\* the quotes are removed.
ShlexSplit(s) == ShlexFrom(s, 1, <<>>, FALSE, FALSE, <<>>)

----------------------------------------------------------------------------
(* The argument parser built by add_arguments *)

\* parser defaults: store_true flags are False, --delay 0, --page-size 100,
\* everything else None
Defaults ==
    [dry_run |-> FALSE, site |-> None, courses |-> None, start_date |-> None,
     end_date |-> None, delay |-> 0, page_size |-> 100, auto |-> FALSE,
     args_from_database |-> FALSE, verbose |-> FALSE,
     notify_programs |-> FALSE, user_ids |-> None]

OptionKeys == DOMAIN Defaults

StoreTrueOptions ==
    {"--dry-run", "--auto", "--args-from-database", "--verbose", "--notify_programs"}

OneArgOptions == {"--site", "--start-date", "--end-date", "--delay", "--page-size"}

OneOrMoreOptions == {"--courses", "--user_ids"}

DeclaredOptions == StoreTrueOptions \cup OneArgOptions \cup OneOrMoreOptions

\* the attribute of the namespace an option string is stored under
Dest(w) ==
    CASE w = "--dry-run"            -> "dry_run"
      [] w = "--site"               -> "site"
      [] w = "--courses"            -> "courses"
      [] w = "--start-date"         -> "start_date"
      [] w = "--end-date"           -> "end_date"
      [] w = "--delay"              -> "delay"
      [] w = "--page-size"          -> "page_size"
      [] w = "--auto"               -> "auto"
      [] w = "--args-from-database" -> "args_from_database"
      [] w = "--verbose"            -> "verbose"
      [] w = "--notify_programs"    -> "notify_programs"
      [] w = "--user_ids"           -> "user_ids"

\* float() / int() of an argument string
NumberFromString(s) ==
    CASE s = W("2")  -> [ok |-> TRUE, val |-> 2]
      [] s = W("50") -> [ok |-> TRUE, val |-> 50]
      [] OTHER       -> [ok |-> FALSE, val |-> 0]

\* the type= conversion of a one-argument option
Convert(w, s) ==
    CASE w = "--site" -> [ok |-> TRUE, val |-> Str(s)]
      [] w \in {"--start-date", "--end-date"} ->
            [ok |-> parsetime(s).ok, val |-> parsetime(s).dt]
      [] w \in {"--delay", "--page-size"} -> NumberFromString(s)

\* argparse takes a token for an option string when it is one word that
\* begins with a dash
IsOptionLike(tok) ==
    /\ Len(tok) = 1
    /\ tok[1] \in DeclaredOptions \cup {"--bogus"}

\* number of consecutive argument tokens of argv from position i on
RECURSIVE CountArgs(_, _)
CountArgs(argv, i) ==
    IF i > Len(argv) \/ IsOptionLike(argv[i])
    THEN 0
    ELSE 1 + CountArgs(argv, i + 1)

RECURSIVE ParseFrom(_, _, _)
ParseFrom(argv, i, ns) ==
    IF i > Len(argv)
    THEN [ok |-> TRUE, ns |-> ns]
    ELSE IF ~IsOptionLike(argv[i]) \/ argv[i][1] \notin DeclaredOptions
    THEN [ok |-> FALSE, ns |-> ns]              \* unrecognized arguments
    ELSE LET w == argv[i][1]
             n == CountArgs(argv, i + 1)
         IN  CASE w \in StoreTrueOptions ->
                    ParseFrom(argv, i + 1, [ns EXCEPT ![Dest(w)] = TRUE])
               [] w \in OneArgOptions ->
                    IF n = 0
                    THEN [ok |-> FALSE, ns |-> ns]      \* expected one argument
                    ELSE IF ~Convert(w, argv[i + 1]).ok
                    THEN [ok |-> FALSE, ns |-> ns]      \* invalid value
                    ELSE ParseFrom(argv, i + 2,
                            [ns EXCEPT ![Dest(w)] = Convert(w, argv[i + 1]).val])
               [] w \in OneOrMoreOptions ->
                    IF n = 0
                    THEN [ok |-> FALSE, ns |-> ns]      \* expected at least one argument
                    ELSE ParseFrom(argv, i + 1 + n,
                            [ns EXCEPT ![Dest(w)] = List(SubSeq(argv, i + 1, i + n))])

\* parser.parse_args(argv).__dict__, or the parser's error
ParseArgs(argv) == ParseFrom(argv, 1, Defaults)

----------------------------------------------------------------------------
(* Outcomes of an invocation *)

Running == [exc |-> "none", arg |-> ""]

Returned == [exc |-> "return", arg |-> ""]

CommandErrorDisabled ==
    [exc |-> "CommandError",
     arg |-> "NotifyCredentialsConfig is disabled, but --args-from-database was requested."]

CommandErrorNoFilter ==
    [exc |-> "CommandError",
     arg |-> "You must specify a filter (e.g. --courses= or --start-date or --user_ids)"]

\* sys.exit(1) in get_course_keys
SystemExit1 == [exc |-> "SystemExit", arg |-> "1"]

\* shlex.split on a string with an unclosed quote
ShlexValueError == [exc |-> "ValueError", arg |-> "No closing quotation"]

\* CommandParser.error when the command was not run from the command line
ParserCommandError == [exc |-> "CommandError", arg |-> "Error: argument parsing"]

\* CommandParser.error when the command was run from the command line
ParserSystemExit2 == [exc |-> "SystemExit", arg |-> "2"]

----------------------------------------------------------------------------
(* Inputs *)

SeqsUpTo(S, n) == UNION {[1..k -> S] : k \in 0..n}

\* the values argparse (or call_command) hands to handle for each option
CommandLineOptions ==
    [dry_run : BOOLEAN,
     site : {None, Str(W("example.com"))},
     courses : {None} \cup {List(s) : s \in SeqsUpTo(CourseIds, MaxCourses)},
     start_date : {None, DateTime(Day20180601, 0, 0, 0, 0, "UTC")},
     end_date : {None, DateTime(Day20201020, 4, 0, 0, 0, "UTC")},
     delay : {0},
     page_size : {100},
     auto : BOOLEAN,
     args_from_database : BOOLEAN,
     verbose : {FALSE},
     notify_programs : {FALSE},
     user_ids : {None, List(<<>>), List(<<W("7")>>)}]

\* contents of NotifyCredentialsConfig.arguments
StoredArguments ==
    { <<>>,
      <<"--courses", SP, "course-v1:edX+DemoX+Demo_Course">>,
      <<"--courses", SP, "not-a-course-key">>,
      <<"--courses", SP, "course-v1:edX+RecordsSelfPaced+1", SP,
        "not-a-course-key", SP, "course-v1:edX+DemoX+Demo_Course">>,
      <<"--courses", SP, "course-v1:edX+RecordsSelfPaced+1", SP,
        "course-v1:edX+DemoX+Demo_Course", SP, "course-v1:edX+RecordsSelfPaced+1">>,
      <<"--courses">>,
      <<"--start-date", SP, DQ, "2020-10-20", SP, "04:00:00", DQ>>,
      <<"--start-date", SP, "2020-10-20", SP, "04:00:00">>,
      <<"--start-date", SP, DQ, "2020-10-20", SP, "04:00:00">>,
      <<"--start-date", SP, "yesterday">>,
      <<"--auto">>,
      <<"--auto", SP, "--start-date", SP, "2018-06-01", SP, "--notify_programs">>,
      <<"--user_ids", SP, "7", SP, "--dry-run", SP, "--site", SP, "example.com">>,
      <<"--delay", SP, "2", SP, "--page-size", SP, "50", SP, "--end-date", SP,
        "2018-06-01", SP, "--verbose", SP, "--args-from-database">>,
      <<"--bogus">> }

Configs == [enabled : BOOLEAN, arguments : StoredArguments]

----------------------------------------------------------------------------
(* Command.get_args_from_database *)

\* variant: config.enabled is not looked at
GetArgsFromDatabaseUnchecked(cfg, fromCommandLine) ==
    IF ~ShlexSplit(cfg.arguments).ok
    THEN [raised |-> ShlexValueError, options |-> None]
    ELSE IF ~ParseArgs(ShlexSplit(cfg.arguments).argv).ok
    THEN [raised |-> IF fromCommandLine THEN ParserSystemExit2
                                        ELSE ParserCommandError,
          options |-> None]
    ELSE [raised |-> Running,
          options |-> ParseArgs(ShlexSplit(cfg.arguments).argv).ns]

\* What get_args_from_database does with the current configuration: the
\* exception it ends with (Running when it returns) and the dictionary it
\* returns.
GetArgsFromDatabase(cfg, fromCommandLine) ==
    IF ~cfg.enabled
    THEN [raised |-> CommandErrorDisabled, options |-> None]
    ELSE IF ~ShlexSplit(cfg.arguments).ok
    THEN [raised |-> ShlexValueError, options |-> None]
    ELSE IF ~ParseArgs(ShlexSplit(cfg.arguments).argv).ok
    THEN [raised |-> IF fromCommandLine THEN ParserSystemExit2
                                        ELSE ParserCommandError,
          options |-> None]
    ELSE [raised |-> Running,
          options |-> ParseArgs(ShlexSplit(cfg.arguments).argv).ns]

----------------------------------------------------------------------------
(* Command.handle *)

\* lines 148-150: the window --auto computes from the clock reading t
AutoWindow(opts, t) ==
    IF opts.auto
    THEN [opts EXCEPT !.end_date = TruncateToHour(t),
                      !.start_date = MinusFourHours(TruncateToHour(t))]
    ELSE opts

\* variant: --dry-run is taken for a filter
HasFilterCountsDryRun(keys, opts) ==
    \/ Len(keys) > 0
    \/ Truthy(opts.start_date)
    \/ Truthy(opts.end_date)
    \/ Truthy(opts.user_ids)
    \/ opts.dry_run

\* variant: the dates are not taken for filters
HasFilterIgnoresDates(keys, opts) ==
    \/ Len(keys) > 0
    \/ Truthy(opts.user_ids)

\* line 167: the condition under which no CommandError is raised
HasFilter(keys, opts) ==
    \/ Len(keys) > 0
    \/ Truthy(opts.start_date)
    \/ Truthy(opts.end_date)
    \/ Truthy(opts.user_ids)

\* variant: user_ids is not passed on
JobWithoutUserIds(opts, keys) ==
    [options |-> [opts EXCEPT !.user_ids = None], course_keys |-> keys]

\* line 170: the arguments of handle_notify_credentials.delay
Job(opts, keys) == [options |-> opts, course_keys |-> keys]

\* variant: the job is queued twice
EnqueueTwice(q, job) == Append(Append(q, job), job)

\* handle_notify_credentials.delay(options, course_keys): one job is queued
Enqueue(q, job) == Append(q, job)

\* lines 183-184: `if not courses: courses = []`
CoursesOrEmpty(c) == IF Truthy(c) THEN c.items ELSE <<>>

Init ==
    /\ pc = "idle"
    /\ config \in Configs
    /\ cmdline = None
    /\ called_from_command_line = FALSE
    /\ options = None
    /\ effective = None
    /\ courses = <<>>
    /\ course_keys = <<>>
    /\ parse_calls = 0
    /\ config_reads = 0
    /\ filter_checked = FALSE
    /\ now = None
    /\ outcome = Running
    /\ queue = <<>>

\* manage.py notify_credentials ... / call_command(...): handle is entered
Invoke ==
    /\ pc = "idle"
    /\ \E o \in CommandLineOptions, f \in BOOLEAN :
          /\ cmdline' = o
          /\ options' = o
          /\ called_from_command_line' = f
    /\ pc' = "line145"
    /\ UNCHANGED <<config, effective, courses, course_keys, parse_calls,
                   config_reads, filter_checked, outcome, queue, now>>

\* variant: the dictionary get_args_from_database returns is dropped
ReadArgsFromDatabaseDiscarded ==
    /\ pc = "line145"
    /\ options.args_from_database
    /\ config_reads' = config_reads + 1
    /\ LET r == GetArgsFromDatabase(config, called_from_command_line)
       IN  IF r.raised = Running
           THEN /\ effective' = options
                /\ pc' = "line148"
                /\ UNCHANGED <<options, outcome>>
           ELSE /\ outcome' = r.raised
                /\ pc' = "done"
                /\ UNCHANGED <<options, effective>>
    /\ UNCHANGED <<config, cmdline, called_from_command_line, courses,
                   course_keys, parse_calls, filter_checked, queue, now>>

\* lines 145-146 with --args-from-database
ReadArgsFromDatabase ==
    /\ pc = "line145"
    /\ options.args_from_database
    /\ config_reads' = config_reads + 1
    /\ LET r == GetArgsFromDatabase(config, called_from_command_line)
       IN  IF r.raised = Running
           THEN /\ options' = r.options
                /\ effective' = r.options
                /\ pc' = "line148"
                /\ UNCHANGED outcome
           ELSE /\ outcome' = r.raised
                /\ pc' = "done"
                /\ UNCHANGED <<options, effective>>
    /\ UNCHANGED <<config, cmdline, called_from_command_line, courses,
                   course_keys, parse_calls, filter_checked, queue, now>>

\* line 145 without --args-from-database
KeepCommandLine ==
    /\ pc = "line145"
    /\ ~options.args_from_database
    /\ effective' = options
    /\ pc' = "line148"
    /\ UNCHANGED <<config, cmdline, called_from_command_line, options, courses,
                   course_keys, parse_calls, config_reads, filter_checked,
                   outcome, queue, now>>

\* lines 148-150
ApplyAuto ==
    /\ pc = "line148"
    /\ IF options.auto
       THEN \E t \in Clock : /\ now' = t
                             /\ options' = AutoWindow(options, t)
       ELSE UNCHANGED <<options, now>>
    /\ pc' = "line166"
    /\ UNCHANGED <<config, cmdline, called_from_command_line, effective,
                   courses, course_keys, parse_calls, config_reads,
                   filter_checked, outcome, queue>>

\* line 166 and lines 183-187: get_course_keys is entered
EnterGetCourseKeys ==
    /\ pc = "line166"
    /\ courses' = CoursesOrEmpty(options.courses)
    /\ course_keys' = <<>>
    /\ pc' = "line188"
    /\ UNCHANGED <<config, cmdline, called_from_command_line, options,
                   effective, parse_calls, config_reads, filter_checked,
                   outcome, queue, now>>

\* variant: an unparsable id ends the loop instead of the process
ParseCourseIdBreaks ==
    /\ pc = "line188"
    /\ Len(course_keys) < Len(courses)
    /\ parse_calls' = parse_calls + 1
    /\ LET r == CourseKeyFromString(courses[Len(course_keys) + 1])
       IN  IF r.ok
           THEN /\ course_keys' = Append(course_keys, r.key)
                /\ UNCHANGED pc
           ELSE /\ pc' = "line167"
                /\ UNCHANGED course_keys
    /\ UNCHANGED <<config, cmdline, called_from_command_line, options,
                   effective, courses, config_reads, filter_checked, queue,
                   now, outcome>>

\* variant: each key is put in front of the list
ParseCourseIdPrepends ==
    /\ pc = "line188"
    /\ Len(course_keys) < Len(courses)
    /\ parse_calls' = parse_calls + 1
    /\ LET r == CourseKeyFromString(courses[Len(course_keys) + 1])
       IN  IF r.ok
           THEN /\ course_keys' = <<r.key>> \o course_keys
                /\ UNCHANGED <<pc, outcome>>
           ELSE /\ outcome' = SystemExit1
                /\ pc' = "done"
                /\ UNCHANGED course_keys
    /\ UNCHANGED <<config, cmdline, called_from_command_line, options,
                   effective, courses, config_reads, filter_checked, queue, now>>

\* lines 188-193: one iteration of the loop over `courses`
ParseCourseId ==
    /\ pc = "line188"
    /\ Len(course_keys) < Len(courses)
    /\ parse_calls' = parse_calls + 1
    /\ LET r == CourseKeyFromString(courses[Len(course_keys) + 1])
       IN  IF r.ok
           THEN /\ course_keys' = Append(course_keys, r.key)
                /\ UNCHANGED <<pc, outcome>>
           ELSE /\ outcome' = SystemExit1
                /\ pc' = "done"
                /\ UNCHANGED course_keys
    /\ UNCHANGED <<config, cmdline, called_from_command_line, options,
                   effective, courses, config_reads, filter_checked, queue, now>>

\* line 195: the loop is over and get_course_keys returns
ReturnCourseKeys ==
    /\ pc = "line188"
    /\ Len(course_keys) = Len(courses)
    /\ pc' = "line167"
    /\ UNCHANGED <<config, cmdline, called_from_command_line, options,
                   effective, courses, course_keys, parse_calls, config_reads,
                   filter_checked, outcome, queue, now>>

\* lines 167-168
FilterCheck ==
    /\ pc = "line167"
    /\ filter_checked' = TRUE
    /\ IF HasFilter(course_keys, options)
       THEN /\ pc' = "line170"
            /\ UNCHANGED outcome
       ELSE /\ outcome' = CommandErrorNoFilter
            /\ pc' = "done"
    /\ UNCHANGED <<config, cmdline, called_from_command_line, options,
                   effective, courses, course_keys, parse_calls, config_reads,
                   queue, now>>

\* line 170
Dispatch ==
    /\ pc = "line170"
    /\ queue' = Enqueue(queue, Job(options, course_keys))
    /\ outcome' = Returned
    /\ pc' = "done"
    /\ UNCHANGED <<config, cmdline, called_from_command_line, options,
                   effective, courses, course_keys, parse_calls, config_reads,
                   filter_checked, now>>

Next ==
    \/ Invoke
    \/ ReadArgsFromDatabase
    \/ KeepCommandLine
    \/ ApplyAuto
    \/ EnterGetCourseKeys
    \/ ParseCourseId
    \/ ReturnCourseKeys
    \/ FilterCheck
    \/ Dispatch

Spec == Init /\ [][Next]_vars

----------------------------------------------------------------------------
(* Vocabulary of the properties *)

\* handle has ended, one way or another
Ended == pc = "done"

\* line 146 has been passed: the effective options exist
Resolved == effective # None

\* the strings of a courses option ([] for None)
CourseStrings(opts) == IF opts.courses = None THEN <<>> ELSE opts.courses.items

HasBadCourse(opts) ==
    \E i \in 1..Len(CourseStrings(opts)) : CourseStrings(opts)[i] = BadCourseId

\* none of courses, start_date, end_date, user_ids is set
NoFilterSupplied(opts) ==
    /\ opts.courses = None \/ opts.courses = List(<<>>)
    /\ opts.start_date = None
    /\ opts.end_date = None
    /\ opts.user_ids = None \/ opts.user_ids = List(<<>>)

FourOutcomes == {CommandErrorDisabled, SystemExit1, CommandErrorNoFilter, Returned}

StoredArgumentsErrors == {ShlexValueError, ParserCommandError, ParserSystemExit2}

\* one job on a successful return, none otherwise
OneJobIffReturned ==
    /\ Len(queue) <= 1
    /\ Ended /\ outcome = Returned => Len(queue) = 1
    /\ outcome # Returned => Len(queue) = 0

----------------------------------------------------------------------------
(* C1 *)

----------------------------------------------------------------------------
(* C2 *)

\* C2 as stated: whenever the effective options have no courses, start_date,
\* end_date or user_ids, handle raises the missing-filter CommandError and
\* enqueues nothing; when one of them is set and all course ids parse, that
\* error is not raised.
C2_Original ==
    Ended /\ Resolved =>
        /\ NoFilterSupplied(effective) =>
              outcome = CommandErrorNoFilter /\ queue = <<>>
        /\ ~NoFilterSupplied(effective) /\ ~HasBadCourse(effective) =>
              outcome # CommandErrorNoFilter

\* C2 amended: whenever the effective options have no courses, start_date,
\* end_date or user_ids and auto is not set, handle raises the missing-filter
\* CommandError and enqueues nothing, whatever site, dry_run, delay,
\* page_size, verbose and notify_programs are; when one of the four is set
\* and all course ids parse, that error is not raised.
C2_MissingFilter ==
    Ended /\ Resolved =>
        /\ NoFilterSupplied(effective) /\ ~effective.auto =>
              outcome = CommandErrorNoFilter /\ queue = <<>>
        /\ ~NoFilterSupplied(effective) /\ ~HasBadCourse(effective) =>
              outcome # CommandErrorNoFilter

C2_Witness ==
    /\ Ended
    /\ outcome = CommandErrorNoFilter
    /\ effective.dry_run
    /\ effective.site # None
    /\ queue = <<>>

----------------------------------------------------------------------------
(* C3 *)

\* C3: if a string of the effective courses list does not parse, the process
\* exits with status 1 and nothing is enqueued, wherever the string stands in
\* the list and whatever other filters are given.
C3_BadCourseExits ==
    Ended /\ Resolved /\ HasBadCourse(effective) =>
        outcome = SystemExit1 /\ queue = <<>>

\* a bad id after a good one, with a date filter also given
C3_Witness ==
    /\ Ended
    /\ outcome = SystemExit1
    /\ Len(CourseStrings(effective)) >= 2
    /\ CourseStrings(effective)[1] # BadCourseId
    /\ CourseStrings(effective)[2] = BadCourseId
    /\ effective.start_date # None

----------------------------------------------------------------------------
(* C4 *)

\* C4: with args_from_database set and the configuration not enabled, handle
\* raises the disabled-configuration CommandError; no course id has been
\* parsed, the filter check has not run and nothing has been enqueued.
C4_DisabledConfig ==
    cmdline # None /\ cmdline.args_from_database /\ ~config.enabled =>
        /\ pc \in {"line145", "done"}
        /\ Ended => outcome = CommandErrorDisabled
        /\ parse_calls = 0
        /\ ~filter_checked
        /\ queue = <<>>

\* the command line carried a bad course id and no filter, the stored
\* arguments do not parse
C4_Witness ==
    /\ Ended
    /\ outcome = CommandErrorDisabled
    /\ HasBadCourse(cmdline)
    /\ config.arguments = <<"--bogus">>

----------------------------------------------------------------------------
(* C5 *)

\* the options the stored arguments of the model parse to
ExpectedStored(a) == ParseArgs(ShlexSplit(a).argv).ns

\* C5: with args_from_database set and the configuration enabled, the
\* effective options are those parsed from the stored arguments and the
\* command line has no influence on the filter check or the job; without
\* args_from_database the configuration is never read and the effective
\* options are the command-line options.
C5_OptionsSource ==
    /\ Resolved /\ cmdline.args_from_database =>
          /\ effective = ExpectedStored(config.arguments)
          /\ config_reads = 1
          /\ \A k \in OptionKeys \ {"start_date", "end_date"} :
                options[k] = effective[k]
          /\ config.arguments =
                <<"--user_ids", SP, "7", SP, "--dry-run", SP, "--site", SP, "example.com">>
                => effective = [Defaults EXCEPT !.user_ids = List(<<W("7")>>),
                                                !.dry_run = TRUE,
                                                !.site = Str(W("example.com"))]
          /\ queue # <<>> => queue[1].options = options
    /\ cmdline # None /\ ~cmdline.args_from_database =>
          /\ config_reads = 0
          /\ Resolved => effective = cmdline

\* stored arguments without a filter win over a command line full of filters
C5_Witness ==
    /\ Ended
    /\ cmdline.args_from_database
    /\ config.arguments = <<>>
    /\ cmdline.start_date # None
    /\ cmdline.user_ids = List(<<W("7")>>)
    /\ cmdline.auto
    /\ outcome = CommandErrorNoFilter

----------------------------------------------------------------------------
(* C6 *)

\* C6 as stated: every option value of the enqueued job equals the value
\* that was supplied (the effective options).
C6_Original ==
    Ended /\ outcome = Returned =>
        \A k \in OptionKeys : queue[1].options[k] = effective[k]

\* C6 amended: every option value of the enqueued job equals the value that
\* was supplied, except start_date and end_date when auto is set.
C6_Verbatim ==
    Ended /\ outcome = Returned =>
        /\ DOMAIN queue[1].options = OptionKeys
        /\ \A k \in OptionKeys :
              k \notin {"start_date", "end_date"} \/ ~effective.auto =>
                  queue[1].options[k] = effective[k]

C6_Witness ==
    /\ Ended
    /\ outcome = Returned
    /\ effective.auto
    /\ effective.user_ids = List(<<W("7")>>)
    /\ effective.site # None
    /\ queue[1].options.user_ids = List(<<W("7")>>)

----------------------------------------------------------------------------
(* C7 *)

\* all the courses of the modulestore, which the docstring of
\* get_course_keys names as the default
ModulestoreCourseKeys ==
    <<CourseKeyFromString(DemoCourseId).key, CourseKeyFromString(RecordsCourseId).key>>

\* C7: when courses is empty or None, get_course_keys returns all courses of
\* the modulestore, and a job enqueued without --courses carries them.
C7_DefaultAllCourses ==
    Ended /\ outcome = Returned /\ ~Truthy(effective.courses) =>
        queue[1].course_keys = ModulestoreCourseKeys

----------------------------------------------------------------------------
(* C8 *)

\* hours since day 0
HoursOf(dt) == dt.day * 24 + dt.hour

\* C8: with auto set, the enqueued end_date is the clock reading with minute,
\* second and microsecond zero and the enqueued start_date is exactly four
\* hours earlier, whatever dates were supplied; without auto the enqueued
\* dates are the supplied ones.
C8_AutoWindow ==
    Ended /\ outcome = Returned =>
        LET o == queue[1].options
        IN  IF effective.auto
            THEN /\ now \in Clock
                 /\ o.end_date.type = "datetime"
                 /\ o.end_date.day = now.day
                 /\ o.end_date.hour = now.hour
                 /\ o.end_date.tzinfo = now.tzinfo
                 /\ o.end_date.minute = 0
                 /\ o.end_date.second = 0
                 /\ o.end_date.microsecond = 0
                 /\ o.start_date.type = "datetime"
                 /\ o.start_date.hour \in 0..23
                 /\ HoursOf(o.start_date) = HoursOf(o.end_date) - 4
                 /\ o.start_date.minute = 0
                 /\ o.start_date.second = 0
                 /\ o.start_date.microsecond = 0
                 /\ o.start_date.tzinfo = now.tzinfo
            ELSE /\ now = None
                 /\ o.start_date = effective.start_date
                 /\ o.end_date = effective.end_date

\* supplied dates are overridden, the window starts on the previous day
C8_Witness ==
    /\ Ended
    /\ outcome = Returned
    /\ effective.auto
    /\ effective.start_date # None
    /\ effective.end_date # None
    /\ now.hour < 4
    /\ now.minute # 0
    /\ queue[1].options.start_date.day = now.day - 1

----------------------------------------------------------------------------
(* C9 *)

\* C9: with auto set the missing-filter CommandError is never raised; an
\* invocation with auto, no courses, dates or user_ids and no unparsable
\* course id enqueues one job.
C9_AutoIsFilter ==
    Ended /\ Resolved /\ effective.auto =>
        /\ outcome # CommandErrorNoFilter
        /\ ~HasBadCourse(effective) => outcome = Returned /\ Len(queue) = 1

C9_Witness ==
    /\ Ended
    /\ outcome = Returned
    /\ effective.auto
    /\ NoFilterSupplied(effective)
    /\ Len(queue) = 1

----------------------------------------------------------------------------
(* C10 *)

\* the key each good course id stands for
ExpectedKey(s) ==
    IF s = DemoCourseId
    THEN [type |-> "CourseLocator", org |-> "edX", course |-> "DemoX",
          run |-> "Demo_Course"]
    ELSE [type |-> "CourseLocator", org |-> "edX", course |-> "RecordsSelfPaced",
          run |-> "1"]

KeysMatch(keys, strs) ==
    /\ Len(keys) = Len(strs)
    /\ \A i \in 1..Len(strs) : keys[i] = ExpectedKey(strs[i])

\* C10: when every string of courses parses, get_course_keys returns the list
\* of their keys, of the same length and in the same order, duplicates kept,
\* and that list is the second argument of the enqueued job.
C10_KeysInOrder ==
    /\ pc \in {"line167", "line170"} =>
          KeysMatch(course_keys, CourseStrings(effective))
    /\ Ended /\ outcome = Returned =>
          KeysMatch(queue[1].course_keys, CourseStrings(effective))

\* three ids, the first repeated after another one
C10_Witness ==
    /\ Ended
    /\ outcome = Returned
    /\ CourseStrings(effective) = <<RecordsCourseId, DemoCourseId, RecordsCourseId>>
    /\ Len(queue[1].course_keys) = 3

====
